---- MODULE Spec2Model ----
(***************************************************************************)
(* Model of spark/compile_stations.py: the batch job that turns the AQS    *)
(* site registry (aqs_sites.csv) into a map station id -> {grid id ->      *)
(* distance in miles}.                                                     *)
(*                                                                         *)
(* Text is modelled as sequences of one-character strings, so that the     *)
(* CSV splitting, float() and the date parser are computed, not assumed.   *)
(* Degrees are fixed-point integers in hundredths of a degree; miles are   *)
(* integers in thousandths of a mile (before rounding) and in tenths of a  *)
(* mile (after round(d, 1)).                                               *)
(***************************************************************************)
EXTENDS Integers, Sequences, FiniteSets, TLC

VARIABLES
    data_rdd,     \* the lines of aqs_sites.csv, in file order
    grid_json,    \* the decoded content of grid.json
    GRID,         \* the module-level global GRID
    stage,        \* per line: where it is in map / filter / map
    parsed,       \* per line: what parse_station_record returned
    emitted,      \* per line: what determine_grid_point_neighbors returned
    stations,     \* the dict collectAsMap returned
    stations_json,\* what was written to stations.json
    finished,     \* the lines whose task result has arrived, in arrival order
    pc,           \* position of main()
    error         \* the exception that ended the run, and where it was raised

vars == <<data_rdd, grid_json, GRID, stage, parsed, emitted, stations,
          stations_json, finished, pc, error>>

(***************************************************************************)
(* Python values                                                           *)
(***************************************************************************)
None == [tag |-> "None"]

Return(v) == [kind |-> "return", value |-> v]

Raise(e) == [kind |-> "raise", exc |-> e]

\* a Python float: finite (v in hundredths), +-inf (v is the sign) or nan
Fin(n) == [k |-> "fin", v |-> n]

Inf(sign) == [k |-> "inf", v |-> sign]

NaN == [k |-> "nan", v |-> 0]

Digits == <<"0", "1", "2", "3", "4", "5", "6", "7", "8", "9">>

IsDigit(c) == \E i \in 1..10 : Digits[i] = c

DigitVal(c) == (CHOOSE i \in 1..10 : Digits[i] = c) - 1

\* the characters of the model that are not ASCII
NonAscii == {"U+00E9"}

(***************************************************************************)
(* station_record.encode('ascii', 'ignore'): non-ASCII characters vanish   *)
(***************************************************************************)
encode_ascii_ignore(s) == SelectSeq(s, LAMBDA c : c \notin NonAscii)

(***************************************************************************)
(* csv.reader(f, delimiter=',').next() on a one-line file: the excel       *)
(* dialect (quotechar '"', doublequote, not strict).  The reader is a      *)
(* state machine over the characters; st is its state, cur the field being *)
(* built and acc the fields saved so far.                                  *)
(***************************************************************************)
RECURSIVE csv_scan(_, _, _, _, _)
csv_scan(s, i, st, cur, acc) ==
    IF i > Len(s)
    THEN Append(acc, cur)
    ELSE LET c == s[i] IN
         CASE st = "START_FIELD" ->
                 IF c = "\"" THEN csv_scan(s, i + 1, "IN_QUOTED_FIELD", cur, acc)
                 ELSE IF c = "," THEN csv_scan(s, i + 1, "START_FIELD", <<>>, Append(acc, cur))
                 ELSE csv_scan(s, i + 1, "IN_FIELD", Append(cur, c), acc)
           [] st = "IN_FIELD" ->
                 IF c = "," THEN csv_scan(s, i + 1, "START_FIELD", <<>>, Append(acc, cur))
                 ELSE csv_scan(s, i + 1, "IN_FIELD", Append(cur, c), acc)
           [] st = "IN_QUOTED_FIELD" ->
                 IF c = "\"" THEN csv_scan(s, i + 1, "QUOTE_IN_QUOTED_FIELD", cur, acc)
                 ELSE csv_scan(s, i + 1, "IN_QUOTED_FIELD", Append(cur, c), acc)
           [] OTHER -> \* QUOTE_IN_QUOTED_FIELD
                 IF c = "\"" THEN csv_scan(s, i + 1, "IN_QUOTED_FIELD", Append(cur, c), acc)
                 ELSE IF c = "," THEN csv_scan(s, i + 1, "START_FIELD", <<>>, Append(acc, cur))
                 ELSE csv_scan(s, i + 1, "IN_FIELD", Append(cur, c), acc)

\* an empty file has no row: next() raises StopIteration
csv_reader_next(s) ==
    IF Len(s) = 0 THEN Raise("StopIteration")
    ELSE Return(csv_scan(s, 1, "START_FIELD", <<>>, <<>>))

(***************************************************************************)
(* float(string): surrounding blanks are stripped, then an optional sign   *)
(* and either inf / nan or digits with an optional fraction.  The model's  *)
(* texts carry at most two fraction digits and no exponent.                *)
(***************************************************************************)
RECURSIVE lstrip(_)
lstrip(s) == IF Len(s) > 0 /\ Head(s) = " " THEN lstrip(Tail(s)) ELSE s

RECURSIVE rstrip(_)
rstrip(s) ==
    IF Len(s) > 0 /\ s[Len(s)] = " " THEN rstrip(SubSeq(s, 1, Len(s) - 1)) ELSE s

RECURSIVE digits_value(_)
digits_value(s) ==
    IF Len(s) = 0 THEN 0
    ELSE 10 * digits_value(SubSeq(s, 1, Len(s) - 1)) + DigitVal(s[Len(s)])

AllDigits(s) == \A i \in 1..Len(s) : IsDigit(s[i])

DotAt(s) == IF \E i \in 1..Len(s) : s[i] = "."
            THEN CHOOSE i \in 1..Len(s) : s[i] = "." /\ \A j \in 1..(i - 1) : s[j] # "."
            ELSE 0

\* the unsigned decimal text s as a number of hundredths, or ValueError
unsigned_decimal(s) ==
    LET dot  == DotAt(s)
        ip   == IF dot = 0 THEN s ELSE SubSeq(s, 1, dot - 1)
        fp   == IF dot = 0 THEN <<>> ELSE SubSeq(s, dot + 1, Len(s))
        fp2  == IF Len(fp) = 0 THEN <<"0", "0">>
                ELSE IF Len(fp) = 1 THEN fp \o <<"0">> ELSE fp
    IN  IF Len(ip) + Len(fp) = 0 \/ ~AllDigits(ip) \/ ~AllDigits(fp) \/ Len(fp) > 2
        THEN Raise("ValueError")
        ELSE Return(Fin(100 * digits_value(ip) + digits_value(fp2)))

float(string) ==
    LET t    == rstrip(lstrip(string))
        neg  == Len(t) > 0 /\ Head(t) = "-"
        sgn  == Len(t) > 0 /\ Head(t) \in {"-", "+"}
        body == IF sgn THEN Tail(t) ELSE t
        m    == IF neg THEN -1 ELSE 1
    IN  IF body = <<"i", "n", "f">> THEN Return(Inf(m))
        ELSE IF body = <<"n", "a", "n">> THEN Return(NaN)
        ELSE LET u == unsigned_decimal(body) IN
             IF u.kind = "raise" THEN u ELSE Return(Fin(m * u.value.v))

\* number != 0.  (nan and the infinities differ from zero)
NotEqualZero(number) == number.k # "fin" \/ number.v # 0

valid_nonzero_float(string) ==
    LET r == float(string) IN
    IF r.kind = "raise" THEN None    \* except ValueError
    ELSE IF NotEqualZero(r.value) THEN r.value
    ELSE None

(***************************************************************************)
(* dateutil's parser.parse on the texts of the model: an ISO calendar date *)
(* YYYY-MM-DD gives that date (at midnight, no time zone); text that holds *)
(* no date raises ValueError.                                              *)
(***************************************************************************)
DaysIn(y, m) ==
    IF m \in {4, 6, 9, 11} THEN 30
    ELSE IF m # 2 THEN 31
    ELSE IF (y % 4 = 0 /\ y % 100 # 0) \/ y % 400 = 0 THEN 29 ELSE 28

parser_parse(s) ==
    IF Len(s) # 10 \/ s[5] # "-" \/ s[8] # "-"
       \/ ~AllDigits(SubSeq(s, 1, 4)) \/ ~AllDigits(SubSeq(s, 6, 7))
       \/ ~AllDigits(SubSeq(s, 9, 10))
    THEN Raise("ValueError")
    ELSE LET y == digits_value(SubSeq(s, 1, 4))
             m == digits_value(SubSeq(s, 6, 7))
             d == digits_value(SubSeq(s, 9, 10))
         IN  IF y < 1 \/ m < 1 \/ m > 12 \/ d < 1 \/ d > DaysIn(y, m)
             THEN Raise("ValueError")
             ELSE Return(<<y, m, d>>)

\* a variant of the comparison that also rejects the cutoff day itself
DateLessOrEqual(a, b) ==
    \/ a[1] < b[1]
    \/ a[1] = b[1] /\ a[2] < b[2]
    \/ a[1] = b[1] /\ a[2] = b[2] /\ a[3] <= b[3]

\* datetime.__lt__
DateLess(a, b) ==
    \/ a[1] < b[1]
    \/ a[1] = b[1] /\ a[2] < b[2]
    \/ a[1] = b[1] /\ a[2] = b[2] /\ a[3] < b[3]

(***************************************************************************)
(* parse_station_record                                                    *)
(***************************************************************************)
\* a variant of the exclusion list that forgets Guam
ExcludedStateIdsWithoutGuam ==
    { <<"S", "t", "a", "t", "e", " ", "C", "o", "d", "e">>,
      <<"C", "C">>, <<"8", "0">>, <<"7", "8">> }

\* header, Canada, Mexico, US Virgin Islands, Guam
ExcludedStateIds ==
    { <<"S", "t", "a", "t", "e", " ", "C", "o", "d", "e">>,
      <<"C", "C">>, <<"8", "0">>, <<"7", "8">>, <<"6", "6">> }

AcceptedDatums == { <<"W", "G", "S", "8", "4">>, <<"N", "A", "D", "8", "3">> }

HistorySpanText == <<"1", "9", "8", "0", "-", "0", "1", "-", "0", "1">>

\* '|'.join([state_id, county_id, site_number])
JoinStationId(state_id, county_id, site_number) ==
    state_id \o <<"|">> \o county_id \o <<"|">> \o site_number

\* a variant of the returned tuple with the coordinates swapped
StationSwapped(station_id, latitude, longitude) ==
    [tag |-> "Station", id |-> station_id, latitude |-> longitude,
     longitude |-> latitude]

Station(station_id, latitude, longitude) ==
    [tag |-> "Station", id |-> station_id, latitude |-> latitude,
     longitude |-> longitude]

\* the closure-date rule and the final return, lines 76-85
closed_rule(record, station_id, latitude, longitude) ==
    IF Len(record) < 11 THEN Raise("IndexError")            \* record[10]
    ELSE LET closed == record[11] IN
         IF Len(closed) = 0
         THEN Return(Station(station_id, latitude, longitude))
         ELSE LET closed_date  == parser_parse(closed)
                  history_span == parser_parse(HistorySpanText)
              IN  IF closed_date.kind = "raise" THEN closed_date
                  ELSE IF DateLess(closed_date.value, history_span.value)
                  THEN Return(None)
                  ELSE Return(Station(station_id, latitude, longitude))

\* a variant of the rules that reads the closure date before the datum
parse_fields_date_first(record) ==
    IF record[1] \in ExcludedStateIds THEN Return(None)
    ELSE IF Len(record) < 5 THEN Raise("IndexError")
    ELSE LET station_id == JoinStationId(record[1], record[2], record[3])
             latitude   == valid_nonzero_float(record[4])
             longitude  == valid_nonzero_float(record[5])
             r          == closed_rule(record, station_id, latitude, longitude)
         IN  IF latitude = None \/ longitude = None THEN Return(None)
             ELSE IF r.kind = "raise" THEN r
             ELSE IF record[6] \notin AcceptedDatums THEN Return(None)
             ELSE r

\* the rules on a split record, lines 57-85; record[k] of the code is
\* record[k + 1] here, and raises IndexError when the record is too short
parse_fields(record) ==
    IF record[1] \in ExcludedStateIds THEN Return(None)
    ELSE IF Len(record) < 4 THEN Raise("IndexError")        \* record[1..3]
    ELSE LET station_id == JoinStationId(record[1], record[2], record[3])
             latitude   == valid_nonzero_float(record[4])
         IN  IF Len(record) < 5 THEN Raise("IndexError")    \* record[4]
             ELSE LET longitude == valid_nonzero_float(record[5]) IN
                  IF latitude = None \/ longitude = None THEN Return(None)
                  ELSE IF Len(record) < 6 THEN Raise("IndexError")   \* record[5]
                  ELSE IF record[6] \notin AcceptedDatums THEN Return(None)
                  ELSE closed_rule(record, station_id, latitude, longitude)

parse_station_record(station_record) ==
    LET row == csv_reader_next(encode_ascii_ignore(station_record)) IN
    IF row.kind = "raise" THEN row ELSE parse_fields(row.value)

(***************************************************************************)
(* calc_distance: the haversine formula with R = 3959 miles.  For finite   *)
(* arguments its value is taken from the table below: the formula of       *)
(* lines 109-117 evaluated in double precision at every pair (grid point,  *)
(* station coordinates) of the model, as floor(1000 * miles).  A nan       *)
(* argument gives nan; an infinite one makes math.sin raise ValueError.    *)
(***************************************************************************)
HaversineTable ==
    {
      <<3890, -7700, 3890, 3890, 5703517>>, <<3890, -7700, 3890, 3930, 5718674>>, <<3890, -7700, 3890, -7700, 0>>,
      <<3890, -7700, 3890, -7678, 11830>>, <<3890, -7700, 3930, 3890, 5683950>>, <<3890, -7700, 3930, 3930, 5699032>>,
      <<3890, -7700, 3930, -7700, 27639>>, <<3890, -7700, 3930, -7678, 30051>>, <<3890, -7700, -7700, 3890, 9224436>>,
      <<3890, -7700, -7700, 3930, 9230430>>, <<3890, -7700, -7700, -7700, 8008410>>, <<3890, -7700, -7700, -7678, 8008415>>,
      <<3890, -7700, -7678, 3890, 9228391>>, <<3890, -7700, -7678, 3930, 9234491>>, <<3890, -7700, -7678, -7700, 7993208>>,
      <<3890, -7700, -7678, -7678, 7993214>>, <<3901, -7646, 3890, 3890, 5677607>>, <<3901, -7646, 3890, 3930, 5692823>>,
      <<3901, -7646, 3890, -7700, 29994>>, <<3901, -7646, 3890, -7678, 18799>>, <<3901, -7646, 3930, 3890, 5658116>>,
      <<3901, -7646, 3930, 3930, 5673256>>, <<3901, -7646, 3930, -7700, 35195>>, <<3901, -7646, 3930, -7678, 26372>>,
      <<3901, -7646, -7700, 3890, 9223621>>, <<3901, -7646, -7700, 3930, 9229633>>, <<3901, -7646, -7700, -7700, 8016045>>,
      <<3901, -7646, -7700, -7678, 8016022>>, <<3901, -7646, -7678, 3890, 9227423>>, <<3901, -7646, -7678, 3930, 9233540>>,
      <<3901, -7646, -7678, -7700, 8000844>>, <<3901, -7646, -7678, -7678, 8000821>>, <<3906, -7648, 3890, 3890, 5675935>>,
      <<3906, -7648, 3890, 3930, 5691139>>, <<3906, -7648, 3890, -7700, 30039>>, <<3906, -7648, 3890, -7678, 19542>>,
      <<3906, -7648, 3930, 3890, 5656428>>, <<3906, -7648, 3930, 3930, 5671557>>, <<3906, -7648, 3930, -7700, 32415>>,
      <<3906, -7648, 3930, -7678, 23091>>, <<3906, -7648, -7700, 3890, 9227239>>, <<3906, -7648, -7700, 3930, 9233250>>,
      <<3906, -7648, -7700, -7700, 8019497>>, <<3906, -7648, -7700, -7678, 8019476>>, <<3906, -7648, -7678, 3890, 9231041>>,
      <<3906, -7648, -7678, 3930, 9237158>>, <<3906, -7648, -7678, -7700, 8004296>>, <<3906, -7648, -7678, -7678, 8004274>>,
      <<3912, -7652, 3890, 3890, 5674537>>, <<3912, -7652, 3890, 3930, 5689724>>, <<3912, -7652, 3890, -7700, 29921>>,
      <<3912, -7652, 3890, -7678, 20638>>, <<3912, -7652, 3930, 3890, 5655008>>, <<3912, -7652, 3930, 3930, 5670119>>,
      <<3912, -7652, 3930, -7700, 28550>>, <<3912, -7652, 3930, -7678, 18667>>, <<3912, -7652, -7700, 3890, 9231820>>,
      <<3912, -7652, -7700, 3930, 9237831>>, <<3912, -7652, -7700, -7700, 8023638>>, <<3912, -7652, -7700, -7678, 8023619>>,
      <<3912, -7652, -7678, 3890, 9235626>>, <<3912, -7652, -7678, 3930, 9241743>>, <<3912, -7652, -7678, -7700, 8008437>>,
      <<3912, -7652, -7678, -7678, 8008418>>, <<4500, -9000, 3890, 3890, 5828314>>, <<4500, -9000, 3890, 3930, 5840173>>,
      <<4500, -9000, 3890, -7700, 788461>>, <<4500, -9000, 3890, -7678, 797995>>, <<4500, -9000, 3930, 3890, 5805288>>,
      <<4500, -9000, 3930, 3930, 5817087>>, <<4500, -9000, 3930, -7700, 772341>>, <<4500, -9000, 3930, -7678, 782014>>,
      <<4500, -9000, -7700, 3890, 9817389>>, <<4500, -9000, -7700, 3930, 9822945>>, <<4500, -9000, -7700, -7700, 8448966>>,
      <<4500, -9000, -7700, -7678, 8449614>>, <<4500, -9000, -7678, 3890, 9824126>>, <<4500, -9000, -7678, 3930, 9829787>>,
      <<4500, -9000, -7678, -7700, 8434035>>, <<4500, -9000, -7678, -7678, 8434693>>
    }

calc_distance(lat1, lon1, lat2, lon2) ==
    LET args == {lat1, lon1, lat2, lon2} IN
    IF \E x \in args : x.k = "inf" THEN Raise("ValueError")
    ELSE IF \E x \in args : x.k = "nan" THEN Return(NaN)
    ELSE LET row == CHOOSE r \in HaversineTable :
                        /\ r[1] = lat1.v /\ r[2] = lon1.v
                        /\ r[3] = lat2.v /\ r[4] = lon2.v
         IN  Return(Fin(row[5]))

(***************************************************************************)
(* determine_grid_point_neighbors                                          *)
(***************************************************************************)
d_cutoff == 30

precision == 1

\* a variant of the test with the 50 miles of the docstring
BelowCutoff50(d) == d.k = "fin" /\ d.v < 50 * 1000

\* d < d_cutoff, d in thousandths of a mile; nan compares False
BelowCutoff(d) == d.k = "fin" /\ d.v < d_cutoff * 1000

\* round(d, precision): thousandths of a mile to tenths, half away from zero
round(d, prec) == IF prec = 1 THEN (d.v + 50) \div 100 ELSE d.v

\* the loop over GRID from position i on, with the dict built so far
RECURSIVE grid_loop(_, _, _, _)
grid_loop(grid, i, rdd, adjacent_grid_points) ==
    IF i > Len(grid) THEN Return(<<rdd.id, adjacent_grid_points>>)
    ELSE LET d == calc_distance(Fin(grid[i].lat), Fin(grid[i].lon),
                                rdd.latitude, rdd.longitude)
         IN  IF d.kind = "raise" THEN d
             ELSE IF BelowCutoff(d.value)
             THEN grid_loop(grid, i + 1, rdd,
                      (grid[i].id :> round(d.value, precision))
                          @@ adjacent_grid_points)
             ELSE grid_loop(grid, i + 1, rdd, adjacent_grid_points)

determine_grid_point_neighbors(rdd) == grid_loop(GRID, 1, rdd, <<>>)

(***************************************************************************)
(* The inputs.  A line of aqs_sites.csv is built from the texts of its     *)
(* fields; the sets below hold, for every field a rule reads, texts on     *)
(* both sides of the rule.                                                 *)
(***************************************************************************)
RECURSIVE JoinFields(_)
JoinFields(fields) ==
    IF Len(fields) = 0 THEN <<>>
    ELSE IF Len(fields) = 1 THEN fields[1]
    ELSE fields[1] \o <<",">> \o JoinFields(Tail(fields))

\* 01 (Alabama), the five excluded codes, a quoted and an accented CC
StateTexts ==
    { <<"0", "1">>,
      <<"C", "C">>,
      <<"8", "0">>,
      <<"7", "8">>,
      <<"6", "6">>,
      <<"S", "t", "a", "t", "e", " ", "C", "o", "d", "e">>,
      <<"\"", "C", "C", "\"">>,
      <<"C", "U+00E9", "C">> }

CountyText == <<"0", "0", "1">>

SiteText == <<"0", "0", "0", "1">>

OtherSiteText == <<"0", "0", "0", "2">>

LatitudeTexts ==
    { <<"3", "8", ".", "9">>,
      <<"3", "9", ".", "3">>,
      <<" ", "3", "8", ".", "9">>,
      <<"0">>,
      <<"0", ".", "0">>,
      <<"-", "0">>,
      <<"a", "b", "c">>,
      <<>>,
      <<"i", "n", "f">>,
      <<"n", "a", "n">> }

LongitudeTexts ==
    { <<"-", "7", "7", ".", "0">>,
      <<"-", "7", "6", ".", "7", "8">>,
      <<"0">>,
      <<"a", "b", "c">>,
      <<"i", "n", "f">> }

DatumTexts ==
    { <<"W", "G", "S", "8", "4">>,
      <<"N", "A", "D", "8", "3">>,
      <<"N", "A", "D", "2", "7">>,
      <<>> }

ClosedTexts ==
    { <<>>,
      <<"1", "9", "7", "5", "-", "0", "6", "-", "0", "1">>,
      <<"1", "9", "7", "9", "-", "1", "2", "-", "3", "1">>,
      <<"1", "9", "8", "0", "-", "0", "1", "-", "0", "1">>,
      <<"1", "9", "8", "5", "-", "0", "6", "-", "0", "1">>,
      <<"1", "9", "7", "9", "-", "0", "2", "-", "3", "0">>,
      <<"u", "n", "k", "n", "o", "w", "n">> }

\* how many fields of a record a line keeps (0: an empty line)
FieldCounts == {0, 1, 3, 4, 5, 6, 10, 11}

WideRecords ==
    { <<s, CountyText, SiteText, la, lo, dt, <<>>, <<>>, <<>>, <<>>, cl>> :
        s \in StateTexts, la \in LatitudeTexts, lo \in LongitudeTexts,
        dt \in DatumTexts, cl \in ClosedTexts }

WideLines == { JoinFields(SubSeq(f, 1, k)) : f \in WideRecords, k \in FieldCounts }

Line(s, site, la, lo, dt, cl) ==
    JoinFields(<<s, CountyText, site, la, lo, dt, <<>>, <<>>, <<>>, <<>>, cl>>)

\* the lines of the multi-line files: two lines with the same station id and
\* different coordinates, a header, and a line of another station whose
\* closure date is no date
NarrowLines ==
    { Line(<<"0", "1">>, SiteText, <<"3", "8", ".", "9">>, <<"-", "7", "7", ".", "0">>, <<"W", "G", "S", "8", "4">>, <<>>),
      Line(<<"0", "1">>, SiteText, <<"3", "9", ".", "3">>, <<"-", "7", "6", ".", "7", "8">>, <<"N", "A", "D", "8", "3">>, <<"1", "9", "8", "5", "-", "0", "6", "-", "0", "1">>),
      Line(<<"S", "t", "a", "t", "e", " ", "C", "o", "d", "e">>, SiteText, <<"a", "b", "c">>, <<"a", "b", "c">>, <<>>, <<>>),
      Line(<<"0", "1">>, OtherSiteText, <<"3", "8", ".", "9">>, <<"-", "7", "6", ".", "7", "8">>, <<"W", "G", "S", "8", "4">>, <<"u", "n", "k", "n", "o", "w", "n">>) }

MaxRecords == 2

MaxGridPoints == 2

RECURSIVE SeqsUpTo(_, _)
SeqsUpTo(S, n) ==
    IF n = 0 THEN {<<>>}
    ELSE LET shorter == SeqsUpTo(S, n - 1) IN
         shorter \cup { Append(q, x) : q \in shorter, x \in S }

\* grid points around the station at (38.90, -77.00): on it, 29.99 miles
\* away, and far away
GridPoints ==
    { [id |-> "g0", lat |-> 3890, lon |-> -7700],
      [id |-> "g1", lat |-> 3901, lon |-> -7646],
      [id |-> "g4", lat |-> 4500, lon |-> -9000] }

\* the grid of the one-line files; g2 is 30.04 miles and g3 29.92 miles
\* from that station
FullGrid ==
    << [id |-> "g0", lat |-> 3890, lon |-> -7700],
       [id |-> "g1", lat |-> 3901, lon |-> -7646],
       [id |-> "g2", lat |-> 3906, lon |-> -7648],
       [id |-> "g3", lat |-> 3912, lon |-> -7652],
       [id |-> "g4", lat |-> 4500, lon |-> -9000] >>

\* grid.json: a list of distinct grid points, or text that is not JSON
GridFiles ==
    { [ok |-> TRUE, value |-> g] :
        g \in { q \in SeqsUpTo(GridPoints, MaxGridPoints) :
                  \A i, j \in 1..Len(q) : i # j => q[i] # q[j] } }
    \cup { [ok |-> FALSE, value |-> <<>>] }

(***************************************************************************)
(* main(): the Spark job.  textFile gives one element per line; each line  *)
(* goes through map(parse_station_record), filter(is not None) and         *)
(* map(determine_grid_point_neighbors) in a task, tasks of different lines *)
(* run in any order, and an exception in a task fails the job.             *)
(* collectAsMap is dict(collect()): collect returns the elements in the    *)
(* order of the RDD, whatever the order the tasks finished in.             *)
(***************************************************************************)
\* dict(pairs): a later pair replaces an earlier one with the same key
RECURSIVE dict(_)
dict(pairs) ==
    IF Len(pairs) = 0 THEN <<>>
    ELSE LET last == pairs[Len(pairs)] IN
         (last[1] :> last[2]) @@ dict(SubSeq(pairs, 1, Len(pairs) - 1))

\* the emitted pairs of the lines that passed the filter, in RDD order
RECURSIVE collect(_, _, _)
collect(stg, out, n) ==
    IF n = 0 THEN <<>>
    ELSE IF stg[n] = "emitted" THEN Append(collect(stg, out, n - 1), out[n])
    ELSE collect(stg, out, n - 1)

\* a variant of the collector that merges the pairs in arrival order
collectAsMapInArrivalOrder(stg, out) ==
    dict([k \in 1..Len(finished) |-> out[finished[k]]])

collectAsMap(stg, out) == dict(collect(stg, out, Len(stg)))

\* lambda line: line is not None
filter_pred(line) == line # None

Unset == [tag |-> "unset"]

NoError == [exc |-> "none", fn |-> "none", at |-> 0]

\* the traceback of a failed run: the exception, the function, the line
Traceback(exc, fn, at) == [exc |-> exc, fn |-> fn, at |-> at]

LoadGrid ==
    /\ pc = "load_grid"
    /\ IF grid_json.ok
       THEN GRID' = grid_json.value /\ pc' = "running" /\ error' = error
       ELSE /\ GRID' = GRID
            /\ pc' = "failed"
            /\ error' = Traceback("ValueError", "json.loads", 0)
    /\ UNCHANGED <<data_rdd, grid_json, stage, parsed, emitted, stations,
                   stations_json, finished>>

MapParse(i) ==
    /\ pc = "running"
    /\ stage[i] = "raw"
    /\ LET r == parse_station_record(data_rdd[i]) IN
       IF r.kind = "raise"
       THEN /\ pc' = "failed"
            /\ error' = Traceback(r.exc, "parse_station_record", i)
            /\ UNCHANGED <<stage, parsed>>
       ELSE /\ parsed' = [parsed EXCEPT ![i] = r.value]
            /\ stage' = [stage EXCEPT ![i] = "parsed"]
            /\ UNCHANGED <<pc, error>>
    /\ UNCHANGED <<data_rdd, grid_json, GRID, emitted, stations, stations_json,
                   finished>>

Filter(i) ==
    /\ pc = "running"
    /\ stage[i] = "parsed"
    /\ stage' = [stage EXCEPT ![i] = IF filter_pred(parsed[i]) THEN "kept"
                                                                ELSE "dropped"]
    /\ UNCHANGED <<data_rdd, grid_json, GRID, parsed, emitted, stations,
                   stations_json, finished, pc, error>>

MapNeighbors(i) ==
    /\ pc = "running"
    /\ stage[i] = "kept"
    /\ LET r == determine_grid_point_neighbors(parsed[i]) IN
       IF r.kind = "raise"
       THEN /\ pc' = "failed"
            /\ error' = Traceback(r.exc, "determine_grid_point_neighbors", i)
            /\ UNCHANGED <<stage, emitted, finished>>
       ELSE /\ emitted' = [emitted EXCEPT ![i] = r.value]
            /\ stage' = [stage EXCEPT ![i] = "emitted"]
            /\ finished' = Append(finished, i)
            /\ UNCHANGED <<pc, error>>
    /\ UNCHANGED <<data_rdd, grid_json, GRID, parsed, stations, stations_json>>

CollectAsMap ==
    /\ pc = "running"
    /\ \A i \in 1..Len(data_rdd) : stage[i] \in {"dropped", "emitted"}
    /\ stations' = collectAsMap(stage, emitted)
    /\ pc' = "collected"
    /\ UNCHANGED <<data_rdd, grid_json, GRID, stage, parsed, emitted,
                   stations_json, finished, error>>

JsonDump ==
    /\ pc = "collected"
    /\ stations_json' = stations
    /\ pc' = "done"
    /\ UNCHANGED <<data_rdd, grid_json, GRID, stage, parsed, emitted, stations,
                   finished, error>>

Init ==
    /\ \/ /\ data_rdd \in { <<l>> : l \in WideLines }
          /\ grid_json = [ok |-> TRUE, value |-> FullGrid]
       \/ /\ data_rdd \in SeqsUpTo(NarrowLines, MaxRecords)
          /\ grid_json \in GridFiles
    /\ GRID = Unset
    /\ stage = [i \in 1..Len(data_rdd) |-> "raw"]
    /\ parsed = [i \in 1..Len(data_rdd) |-> Unset]
    /\ emitted = [i \in 1..Len(data_rdd) |-> Unset]
    /\ stations = Unset
    /\ stations_json = Unset
    /\ finished = <<>>
    /\ pc = "load_grid"
    /\ error = NoError

Next ==
    \/ LoadGrid
    \/ \E i \in 1..Len(data_rdd) : MapParse(i)
    \/ \E i \in 1..Len(data_rdd) : Filter(i)
    \/ \E i \in 1..Len(data_rdd) : MapNeighbors(i)
    \/ CollectAsMap
    \/ JsonDump

Spec == Init /\ [][Next]_vars

(***************************************************************************)
(* Vocabulary of the properties                                            *)
(***************************************************************************)
Lines == 1..Len(data_rdd)

\* the fields the CSV reader gives for line i (none for an empty line)
Fields(i) ==
    LET row == csv_reader_next(encode_ascii_ignore(data_rdd[i])) IN
    IF row.kind = "raise" THEN <<>> ELSE row.value

\* the task of line i has run parse_station_record and it returned
Parsed(i) == stage[i] # "raw"

\* the job failed because parse_station_record raised on line i
RaisedInParse(i) ==
    pc = "failed" /\ error.fn = "parse_station_record" /\ error.at = i

\* parse_station_record has been applied to line i
Applied(i) == Parsed(i) \/ RaisedInParse(i)

\* the job failed because determine_grid_point_neighbors raised on line i
RaisedInNeighbors(i) ==
    pc = "failed" /\ error.fn = "determine_grid_point_neighbors" /\ error.at = i

\* the text is a float that is not zero, as the coordinate rule wants it
NonzeroFloatText(text) ==
    LET r == float(text) IN
    r.kind = "return" /\ ~(r.value.k = "fin" /\ r.value.v = 0)

\* the region codes the territory rule excludes, as the specification lists them
ExclusionSetOfSpec ==
    { <<"S", "t", "a", "t", "e", " ", "C", "o", "d", "e">>,
      <<"C", "C">>, <<"8", "0">>, <<"7", "8">>, <<"6", "6">> }

DatumsOfSpec == { <<"W", "G", "S", "8", "4">>, <<"N", "A", "D", "8", "3">> }

\* line i has the fields the territory, coordinate and datum rules read,
\* and passes the three rules
PassesFirstThreeRules(i) ==
    LET f == Fields(i) IN
    /\ Len(f) >= 6
    /\ f[1] \notin ExclusionSetOfSpec
    /\ NonzeroFloatText(f[4])
    /\ NonzeroFloatText(f[5])
    /\ f[6] \in DatumsOfSpec

\* line i is rejected by the territory, the coordinate or the datum rule
RejectedByFirstThreeRules(i) ==
    LET f == Fields(i) IN
    \/ Len(f) >= 1 /\ f[1] \in ExclusionSetOfSpec
    \/ /\ Len(f) >= 5
       /\ f[1] \notin ExclusionSetOfSpec
       /\ ~NonzeroFloatText(f[4]) \/ ~NonzeroFloatText(f[5])
    \/ /\ Len(f) >= 6
       /\ f[1] \notin ExclusionSetOfSpec
       /\ NonzeroFloatText(f[4]) /\ NonzeroFloatText(f[5])
       /\ f[6] \notin DatumsOfSpec

UnknownText == <<"u", "n", "k", "n", "o", "w", "n">>

(***************************************************************************)
(* C1  parse_station_record never raises: whatever the line, the outcome   *)
(* is a Station or None.  The code raises: StopIteration on an empty line, *)
(* IndexError on a short record, ValueError on a closure date that is no   *)
(* date.                                                                   *)
(***************************************************************************)
C1_ParseNeverRaises == \A i \in Lines : ~RaisedInParse(i)

(***************************************************************************)
(* C2  A record whose first field is in the exclusion set is rejected      *)
(* (None), whatever the other fields are and whether they are there.       *)
(***************************************************************************)
C2_ExcludedRegionRejected ==
    \A i \in Lines :
        LET f == Fields(i) IN
        (Applied(i) /\ Len(f) >= 1 /\ f[1] \in ExclusionSetOfSpec)
            => Parsed(i) /\ parsed[i] = None

\* an excluded record that has no other field at all was rejected
C2_Witness ==
    \E i \in Lines :
        /\ Len(Fields(i)) = 1
        /\ Fields(i)[1] \in ExclusionSetOfSpec
        /\ stage[i] = "dropped"
        /\ parsed[i] = None

(***************************************************************************)
(* C3  Every Station returned has a latitude and a longitude that are      *)
(* finite and not zero.  The code lets inf and nan through.                *)
(***************************************************************************)
C3_CoordinatesFiniteNonzero ==
    \A i \in Lines :
        (Parsed(i) /\ parsed[i] # None)
            => /\ parsed[i].latitude.k = "fin" /\ parsed[i].latitude.v # 0
               /\ parsed[i].longitude.k = "fin" /\ parsed[i].longitude.v # 0

(***************************************************************************)
(* C4  A record that passes the territory, coordinate and datum rules and  *)
(* whose field 11 is empty or a date is rejected exactly when the field is *)
(* not empty and the date is before 1980-01-01, that is, in a year before  *)
(* 1980.                                                                   *)
(***************************************************************************)
C4_ClosedBefore1980Rejected ==
    \A i \in Lines :
        LET f == Fields(i) IN
        (/\ Applied(i)
         /\ Len(f) >= 11
         /\ PassesFirstThreeRules(i)
         /\ Len(f[11]) = 0 \/ parser_parse(f[11]).kind = "return")
            => /\ Parsed(i)
               /\ parsed[i] = None
                     <=> (Len(f[11]) > 0 /\ parser_parse(f[11]).value[1] < 1980)

\* a station closed on 1980-01-01 itself was accepted
C4_Witness ==
    \E i \in Lines :
        /\ PassesFirstThreeRules(i)
        /\ Len(Fields(i)) >= 11
        /\ Fields(i)[11] = HistorySpanText
        /\ Parsed(i)
        /\ parsed[i] # None

(***************************************************************************)
(* C5  For an accepted record the id is field 1, field 2 and field 3       *)
(* joined by '|', and latitude and longitude are the floats of field 4     *)
(* and field 5.                                                            *)
(***************************************************************************)
C5_IdAndCoordinates ==
    \A i \in Lines :
        LET f == Fields(i) IN
        (Parsed(i) /\ parsed[i] # None)
            => /\ Len(f) >= 5
               /\ parsed[i].id = f[1] \o <<"|">> \o f[2] \o <<"|">> \o f[3]
               /\ parsed[i].latitude = float(f[4]).value
               /\ parsed[i].longitude = float(f[5]).value

\* an accepted record whose latitude text carries a leading blank
C5_Witness ==
    \E i \in Lines :
        /\ Parsed(i)
        /\ parsed[i] # None
        /\ Head(Fields(i)[4]) = " "
        /\ parsed[i].latitude = Fin(3890)
        /\ parsed[i].longitude = Fin(-7678)

TableDistance(grid, station) ==
    LET row == CHOOSE r \in HaversineTable :
                   /\ r[1] = grid.lat /\ r[2] = grid.lon
                   /\ r[3] = station.latitude.v /\ r[4] = station.longitude.v
    IN  row[5]

C7_EmptyGridAborts ==
    (pc = "done" /\ Len(GRID) = 0) => DOMAIN stations_json = {}

(***************************************************************************)
(* C8  The final mapping does not depend on the order in which the lines   *)
(* are processed and their results arrive: it is what one pass over the    *)
(* file in file order gives.                                               *)
(***************************************************************************)
RECURSIVE InFileOrder(_)
InFileOrder(n) ==
    IF n = 0 THEN <<>>
    ELSE LET r == parse_station_record(data_rdd[n]) IN
         IF r.kind = "return" /\ r.value # None
         THEN LET e == determine_grid_point_neighbors(r.value).value IN
              (e[1] :> e[2]) @@ InFileOrder(n - 1)
         ELSE InFileOrder(n - 1)

C8_OrderIndependent ==
    /\ pc \in {"collected", "done"} => stations = InFileOrder(Len(data_rdd))
    /\ pc = "done" => stations_json = InFileOrder(Len(data_rdd))

\* two lines with the same station id and different coordinates, the
\* result of the second line arrived first
C8_Witness ==
    /\ pc = "done"
    /\ Len(data_rdd) = 2
    /\ finished = <<2, 1>>
    /\ parsed[1].id = parsed[2].id
    /\ parsed[1].latitude # parsed[2].latitude
    /\ emitted[1][2] # emitted[2][2]

(***************************************************************************)
(* C9  determine_grid_point_neighbors emits one (station_id, mapping) pair *)
(* for every Station it is given, also when the mapping is empty; so when  *)
(* the run has completed the id of every accepted record is a key of the   *)
(* final mapping.  The code raises on a Station whose coordinate is inf.   *)
(***************************************************************************)
C9_EveryStationEmits ==
    /\ \A i \in Lines : ~RaisedInNeighbors(i)
    /\ \A i \in Lines : stage[i] = "emitted" => emitted[i][1] = parsed[i].id
    /\ pc = "done" =>
          \A i \in Lines :
              parsed[i] # None => parsed[i].id \in DOMAIN stations_json

(***************************************************************************)
(* C10  The rules are evaluated in the order territory, coordinates,       *)
(* datum, closure date, and the first that matches ends the evaluation: a  *)
(* record rejected by one of the first three rules returns None whatever   *)
(* field 11 holds, and also when there is no field 11.                     *)
(***************************************************************************)
C10_FirstMatchWins ==
    \A i \in Lines :
        (Applied(i) /\ RejectedByFirstThreeRules(i))
            => Parsed(i) /\ parsed[i] = None

\* a record with a legacy datum and a closure date that is no date was
\* rejected
C10_Witness ==
    \E i \in Lines :
        /\ Len(Fields(i)) = 11
        /\ Fields(i)[1] \notin ExclusionSetOfSpec
        /\ NonzeroFloatText(Fields(i)[4]) /\ NonzeroFloatText(Fields(i)[5])
        /\ Fields(i)[6] \notin DatumsOfSpec
        /\ Fields(i)[11] = UnknownText
        /\ stage[i] = "dropped"
====
